---------------------------- MODULE Spec2Model ----------------------------
(***************************************************************************)
(* Model of the caddy geolocation request matcher (src/main.go).           *)
(*                                                                         *)
(* Three specifications share the variables:                               *)
(*   Spec              the matcher's life: Provision, Cleanup and          *)
(*                     concurrent Match calls, each Match call split at    *)
(*                     the points where it reads the shared matcher;       *)
(*   SpecCheckAllowed  the pure function checkAllowed applied to drawn     *)
(*                     inputs;                                             *)
(*   SpecUnmarshal     UnmarshalCaddyfile applied to a drawn token         *)
(*                     sequence on a fresh matcher.                        *)
(***************************************************************************)
EXTENDS Naturals, Sequences, FiniteSets, TLC

VARIABLES
    m,        \* the MaxmindGeolocation struct (main.go:34-58)
    handles,  \* every *ip2location.DB that OpenDB returned: calls of Close on it
    lastOp,   \* the lifecycle call that returned last
    req,      \* per request goroutine: where its Match call stands, its locals
    parsed,   \* the UnmarshalCaddyfile call made so far: tokens and error
    chk       \* the checkAllowed calls made so far on one policy

vars == <<m, handles, lastOp, req, parsed, chk>>

---------------------------------------------------------------------------
(* Bounds *)

\* concurrent request goroutines
NumRequests == 2
\* successful OpenDB calls (handles ever created)
MaxHandles == 1
\* length of the lists handed to checkAllowed in SpecCheckAllowed
MaxListLen == 2
\* tokens in the matcher block given to UnmarshalCaddyfile
MaxTokens == 4

Requests == 1..NumRequests

\* Sequences over S of length at most n
SeqsUpTo(S, n) == UNION {[1..k -> S] : k \in 0..n}

Range(s) == {s[i] : i \in 1..Len(s)}

---------------------------------------------------------------------------
(* Values *)

\* country codes the database can report: Country_short may be empty or "0"
\* when the address is not in the dataset
Countries == {"", "US", "CN"}

\* the allow and the deny lists of the matcher in Spec
PolicyLists == {<<>>, <<"US">>, <<"UNK", "US">>}

\* country tokens used in the lists in SpecCheckAllowed
ListCodes == {"0", "UNK", "US"}

\* country codes handed to checkAllowed in SpecCheckAllowed
CheckItems == {"", "0", "UNK", "US", "CN"}

\* raw r.RemoteAddr strings
RemoteAddrs == {"1.2.3.4:80", "1.2.3.4", "example.com:80", ""}

Keywords == {"db_path", "allow_countries", "deny_countries", "log_path"}

\* tokens of a matcher block: the keywords and two other tokens
Tokens == Keywords \cup {"US", "x.bin"}

\* new(MaxmindGeolocation), main.go:112: every field has its zero value
ZeroMatcher ==
    [DbPath |-> "", LogPath |-> "", AllowCountries |-> <<>>,
     DenyCountries |-> <<>>, dbInst |-> 0, logger |-> 0]

\* no UnmarshalCaddyfile call has been made
NotParsed == [done |-> FALSE, tokens |-> <<>>, err |-> FALSE]

\* no checkAllowed call is followed
NoChecks == [allowedList |-> <<>>, deniedList |-> <<>>, rets |-> {}]

NoRequest ==
    [pc |-> "idle", addr |-> "", host |-> "", country |-> "",
     lookup |-> "none", ret |-> FALSE]

---------------------------------------------------------------------------
(* checkAllowed, main.go:148-169 *)

NormalizeEmptyOnly(item) == IF item = "" THEN "UNK" ELSE item

\* main.go:149-151: an empty or "0" country is the unknown country
Normalize(item) == IF item = "" \/ item = "0" THEN "UNK" ELSE item

\* the range loops of main.go:153-157 and 161-165
Contains(list, item) == \E i \in 1..Len(list) : list[i] = item

checkAllowedAllowFirst(item, allowedList, deniedList) ==
    LET it == Normalize(item) IN
    IF Len(allowedList) > 0 THEN Contains(allowedList, it)
    ELSE IF Len(deniedList) > 0 THEN ~Contains(deniedList, it)
    ELSE TRUE

checkAllowedDefaultTrue(item, allowedList, deniedList) ==
    LET it == Normalize(item) IN
    IF Len(deniedList) > 0 THEN ~Contains(deniedList, it)
    ELSE TRUE

checkAllowed(item, allowedList, deniedList) ==
    LET it == Normalize(item) IN
    IF Len(deniedList) > 0 THEN ~Contains(deniedList, it)
    ELSE IF Len(allowedList) > 0 THEN Contains(allowedList, it)
    ELSE TRUE

---------------------------------------------------------------------------
(* The library calls of Match on the modelled addresses *)

SplitHostPortKeepsInput(hostport) ==
    CASE hostport = "1.2.3.4:80"     -> [host |-> "1.2.3.4", err |-> FALSE]
      [] hostport = "example.com:80" -> [host |-> "example.com", err |-> FALSE]
      [] OTHER                       -> [host |-> hostport, err |-> TRUE]

\* net.SplitHostPort(r.RemoteAddr), main.go:178: the host before the last
\* colon (brackets removed); on an error the host it returns is empty
SplitHostPort(hostport) ==
    CASE hostport = "1.2.3.4:80"     -> [host |-> "1.2.3.4", err |-> FALSE]
      [] hostport = "example.com:80" -> [host |-> "example.com", err |-> FALSE]
      [] OTHER                       -> [host |-> "", err |-> TRUE]

\* net.ParseIP(remoteIp), main.go:186: FALSE stands for the nil address
ParseIP(s) == s = "1.2.3.4"

FastAcceptOffByOne(mm) ==
    Len(mm.AllowCountries) < 0 /\ Len(mm.DenyCountries) < 0

\* main.go:174
FastAccept(mm) == Len(mm.AllowCountries) < 1 /\ Len(mm.DenyCountries) < 1

---------------------------------------------------------------------------
(* Match, main.go:171-218, one action per read of the shared matcher *)

\* main.go:171-192: with both lists empty the call returns true; otherwise
\* it splits the address and parses the host, and returns false without one.
\* (Every logger call of Match is guarded by m.logger != nil and changes
\* neither the matcher nor the decision; the log output is not modelled.)
MatchEnter(t) ==
    /\ req[t].pc = "idle"
    /\ \E a \in RemoteAddrs :
         LET r  == [NoRequest EXCEPT !.addr = a]
             sp == SplitHostPort(a)
         IN  req' = [req EXCEPT ![t] =
                       IF FastAccept(m)
                       THEN [r EXCEPT !.pc = "done", !.ret = TRUE]
                       ELSE IF ~ParseIP(sp.host)
                       THEN [r EXCEPT !.pc = "done", !.ret = FALSE]
                       ELSE [r EXCEPT !.pc = "lookup", !.host = sp.host]]
    /\ UNCHANGED <<m, handles, lastOp, parsed, chk>>

\* main.go:193-208: m.dbInst.Get_country_short: a nil handle is dereferenced
\* (the goroutine panics); otherwise, on an open handle as on one Cleanup has
\* closed, the lookup fails or reports some country
MatchLookup(t) ==
    /\ req[t].pc = "lookup"
    /\ LET r == req[t] IN
       IF m.dbInst = 0
       THEN req' = [req EXCEPT ![t] = [r EXCEPT !.pc = "panic"]]
       ELSE \E out \in {"err"} \cup Countries :
              req' = [req EXCEPT ![t] =
                        IF out = "err"
                        THEN [r EXCEPT !.pc = "done", !.ret = FALSE, !.lookup = "err"]
                        ELSE [r EXCEPT !.pc = "check", !.lookup = "ok", !.country = out]]
    /\ UNCHANGED <<m, handles, lastOp, parsed, chk>>

MatchCheckRemembersCountry(t) ==
    /\ req[t].pc = "check"
    /\ LET r  == req[t]
           ok == checkAllowed(r.country, m.AllowCountries, m.DenyCountries)
       IN  /\ req' = [req EXCEPT ![t] = [r EXCEPT !.pc = "done", !.ret = ok]]
           /\ m' = IF ok /\ Len(m.DenyCountries) = 0
                   THEN [m EXCEPT !.AllowCountries = <<Normalize(r.country)>>]
                   ELSE m
    /\ UNCHANGED <<handles, lastOp, parsed, chk>>

\* main.go:210-217
MatchCheck(t) ==
    /\ req[t].pc = "check"
    /\ LET r == req[t] IN
       req' = [req EXCEPT ![t] =
                 [r EXCEPT !.pc = "done",
                           !.ret = checkAllowed(r.country, m.AllowCountries,
                                                m.DenyCountries)]]
    /\ UNCHANGED <<m, handles, lastOp, parsed, chk>>

\* the caller has the decision; the goroutine serves its next request
MatchReturn(t) ==
    /\ req[t].pc = "done"
    /\ req' = [req EXCEPT ![t] = NoRequest]
    /\ UNCHANGED <<m, handles, lastOp, parsed, chk>>

---------------------------------------------------------------------------
(* Provision and Cleanup, main.go:116-136 *)

\* main.go:118-123: NewLogger fails; its (nil) logger is stored, the
\* database is not opened
ProvisionLogFails ==
    /\ m.LogPath # ""
    /\ m' = [m EXCEPT !.logger = 0]
    /\ lastOp' = "ProvisionFailed"
    /\ UNCHANGED <<handles, req, parsed, chk>>

\* main.go:118-127: the logger (if any) is built, OpenDB fails and its nil
\* handle is stored
ProvisionDbFails ==
    /\ m' = [m EXCEPT !.logger = IF m.LogPath # "" THEN 1 ELSE @,
                      !.dbInst = 0]
    /\ lastOp' = "ProvisionFailed"
    /\ UNCHANGED <<handles, req, parsed, chk>>

\* main.go:118-128: the logger (if any) is built and a new handle is stored
ProvisionOk ==
    /\ Len(handles) < MaxHandles
    /\ handles' = Append(handles, [closeCalls |-> 0])
    /\ m' = [m EXCEPT !.logger = IF m.LogPath # "" THEN 1 ELSE @,
                      !.dbInst = Len(handles) + 1]
    /\ lastOp' = "Provision"
    /\ UNCHANGED <<req, parsed, chk>>

Provision == ProvisionLogFails \/ ProvisionDbFails \/ ProvisionOk

\* one more call of Close, counted as 0, 1 or "more than once" (2)
CountClose(n) == IF n < 2 THEN n + 1 ELSE n

\* main.go:131-136: Close on the stored handle; the field keeps the handle
Cleanup ==
    /\ IF m.dbInst # 0
       THEN handles' = [handles EXCEPT ![m.dbInst].closeCalls = CountClose(@)]
       ELSE UNCHANGED handles
    /\ lastOp' = "Cleanup"
    /\ UNCHANGED <<m, req, parsed, chk>>

---------------------------------------------------------------------------
(* Spec: one configured matcher, its lifecycle calls and its requests *)

Init ==
    /\ \E lp \in {"", "geo.log"}, al \in PolicyLists, dl \in PolicyLists :
         m = [ZeroMatcher EXCEPT !.DbPath = "x.bin", !.LogPath = lp,
                                 !.AllowCountries = al, !.DenyCountries = dl]
    /\ handles = <<>>
    /\ lastOp = "New"
    /\ req = [t \in Requests |-> NoRequest]
    /\ parsed = NotParsed
    /\ chk = NoChecks

Next ==
    \/ Provision
    \/ Cleanup
    \/ \E t \in Requests : MatchEnter(t)
    \/ \E t \in Requests : MatchLookup(t)
    \/ \E t \in Requests : MatchCheck(t)
    \/ \E t \in Requests : MatchReturn(t)

Spec == Init /\ [][Next]_vars

---------------------------------------------------------------------------
(* SpecCheckAllowed: checkAllowed applied to drawn items under one policy *)

InitCheckAllowed ==
    /\ m = ZeroMatcher
    /\ handles = <<>>
    /\ lastOp = "New"
    /\ req = [t \in Requests |-> NoRequest]
    /\ parsed = NotParsed
    /\ \E al \in SeqsUpTo(ListCodes, MaxListLen), dl \in SeqsUpTo(ListCodes, MaxListLen) :
         chk = [allowedList |-> al, deniedList |-> dl, rets |-> {}]

\* one call m.checkAllowed(item, allowedList, deniedList); its result is kept
CallCheckAllowed ==
    /\ \E item \in CheckItems :
         chk' = [chk EXCEPT !.rets = @ \cup
                   {[item |-> item,
                     ret |-> checkAllowed(item, chk.allowedList, chk.deniedList)]}]
    /\ UNCHANGED <<m, handles, lastOp, req, parsed>>

NextCheckAllowed == CallCheckAllowed

SpecCheckAllowed == InitCheckAllowed /\ [][NextCheckAllowed]_vars

---------------------------------------------------------------------------
(* UnmarshalCaddyfile, main.go:75-107 *)

UnmarshalTokenKeepsCurrent(st, tok) ==
    CASE tok = "db_path"         -> [st EXCEPT !.current = 1]
      [] tok = "allow_countries" -> [st EXCEPT !.current = 2]
      [] tok = "deny_countries"  -> [st EXCEPT !.current = 3]
      [] tok = "log_path"        -> [st EXCEPT !.current = 4]
      [] OTHER ->
           CASE st.current = 1 -> [st EXCEPT !.m.DbPath = tok]
             [] st.current = 2 -> [st EXCEPT !.m.AllowCountries = Append(@, tok)]
             [] st.current = 3 -> [st EXCEPT !.m.DenyCountries = Append(@, tok)]
             [] st.current = 4 -> [st EXCEPT !.m.LogPath = tok]
             [] OTHER          -> [st EXCEPT !.err = TRUE]

\* main.go:79-103: the switch on one token d.Val()
UnmarshalToken(st, tok) ==
    CASE tok = "db_path"         -> [st EXCEPT !.current = 1]
      [] tok = "allow_countries" -> [st EXCEPT !.current = 2]
      [] tok = "deny_countries"  -> [st EXCEPT !.current = 3]
      [] tok = "log_path"        -> [st EXCEPT !.current = 4]
      [] OTHER ->
           CASE st.current = 1 -> [st EXCEPT !.m.DbPath = tok, !.current = 0]
             [] st.current = 2 -> [st EXCEPT !.m.AllowCountries = Append(@, tok)]
             [] st.current = 3 -> [st EXCEPT !.m.DenyCountries = Append(@, tok)]
             [] st.current = 4 -> [st EXCEPT !.m.LogPath = tok, !.current = 0]
             [] OTHER          -> [st EXCEPT !.err = TRUE]

\* main.go:77-106: the loop over the block's tokens, left at the first error
RECURSIVE UnmarshalFrom(_, _, _)
UnmarshalFrom(st, toks, i) ==
    IF i > Len(toks) \/ st.err
    THEN st
    ELSE UnmarshalFrom(UnmarshalToken(st, toks[i]), toks, i + 1)

\* main.go:75-107: the call on the tokens of a matcher block
UnmarshalCaddyfile ==
    /\ ~parsed.done
    /\ \E toks \in SeqsUpTo(Tokens, MaxTokens) :
         LET st == UnmarshalFrom([m |-> m, current |-> 0, err |-> FALSE], toks, 1)
         IN  /\ m' = st.m
             /\ parsed' = [done |-> TRUE, tokens |-> toks, err |-> st.err]
    /\ UNCHANGED <<handles, lastOp, req, chk>>

InitUnmarshal ==
    /\ m = ZeroMatcher
    /\ handles = <<>>
    /\ lastOp = "New"
    /\ req = [t \in Requests |-> NoRequest]
    /\ parsed = NotParsed
    /\ chk = NoChecks

NextUnmarshal == UnmarshalCaddyfile

SpecUnmarshal == InitUnmarshal /\ [][NextUnmarshal]_vars

---------------------------------------------------------------------------
(* Properties of Match and of the lifecycle, under Spec *)

PolicyEmpty == m.AllowCountries = <<>> /\ m.DenyCountries = <<>>

C5_FailClosed ==
    ~PolicyEmpty =>
        \A t \in Requests :
            (/\ req[t].pc = "done"
             /\ \/ req[t].addr \in {"1.2.3.4", ""}
                \/ req[t].addr = "example.com:80"
                \/ req[t].lookup = "err")
            => req[t].ret = FALSE

\* C5 happens: under a deny list a call with an unsplittable address and a
\* call whose lookup failed have both finished.
C5_Witness ==
    /\ Len(m.DenyCountries) > 0
    /\ \E t, u \in Requests :
         /\ req[t].pc = "done" /\ req[t].addr = "1.2.3.4" /\ req[t].ret = FALSE
         /\ req[u].pc = "done" /\ req[u].lookup = "err" /\ req[u].ret = FALSE

\* C6: with neither list configured every request is denied: every finished
\* Match call has returned false.
C6_DenyAllUnconfigured ==
    PolicyEmpty => \A t \in Requests : req[t].pc = "done" => req[t].ret = FALSE

\* C7: every database handle Provision opened is released exactly once: Close
\* is never called twice on it, and once Cleanup has returned no handle is
\* left open.
C7_ReleasedExactlyOnce ==
    /\ \A h \in 1..Len(handles) : handles[h].closeCalls <= 1
    /\ lastOp = "Cleanup" => \A h \in 1..Len(handles) : handles[h].closeCalls >= 1

\* C8: no Match call ends in a fault: whatever the address, the policy, the
\* logger and the state of the database handle, the call returns a boolean.
C8_NoFault == \A t \in Requests : req[t].pc # "panic"

\* the decision of one Match call run alone on the request's address and
\* lookup result, under the lists al and dl
C9_Alone(r, al, dl) ==
    IF al = <<>> /\ dl = <<>> THEN TRUE
    ELSE IF r.addr # "1.2.3.4:80" THEN FALSE
    ELSE IF r.lookup = "err" THEN FALSE
    ELSE LET c == IF r.country \in {"", "0"} THEN "UNK" ELSE r.country
         IN  IF dl # <<>> THEN c \notin Range(dl) ELSE c \in Range(al)

\* C9: no step of a Match call changes the matcher (its lists, its handle
\* reference, its logger reference), and every finished call, however the
\* calls interleave, has the decision it would have alone.
C9_MatchReadOnly ==
    /\ [](\A t \in Requests :
            req[t].pc = "done" =>
                req[t].ret = C9_Alone(req[t], m.AllowCountries, m.DenyCountries))
    /\ [][req' # req => m' = m]_vars

\* C9 happens: one call has finished with true after a lookup while another
\* call, for another country, is between its lookup and its check.
C9_Witness ==
    \E t, u \in Requests :
        /\ req[t].pc = "done" /\ req[t].lookup = "ok" /\ req[t].ret = TRUE
        /\ req[u].pc = "check" /\ req[u].country # req[t].country
        /\ m.dbInst # 0

---------------------------------------------------------------------------
(* Properties of checkAllowed, under SpecCheckAllowed *)

\* C2: under a non-empty deny list, checkAllowed returns true exactly for the
\* codes whose normalized form is not in the deny list, whatever the allow
\* list holds.
C2_DenyDecides ==
    Len(chk.deniedList) > 0 =>
        \A c \in chk.rets :
            c.ret = ((IF c.item \in {"", "0"} THEN "UNK" ELSE c.item)
                        \notin Range(chk.deniedList))

\* C2 happens: a code in both lists was rejected, and a code in neither list
\* was accepted although the allow list is not empty.
C2_Witness ==
    /\ \E c \in chk.rets :
         /\ c.item \in Range(chk.deniedList) \cap Range(chk.allowedList)
         /\ c.ret = FALSE
    /\ \E c \in chk.rets :
         /\ c.item \notin Range(chk.deniedList) \cup Range(chk.allowedList) \cup {"", "0"}
         /\ Len(chk.allowedList) > 0
         /\ c.ret = TRUE

\* C3: under an empty deny list and a non-empty allow list, checkAllowed
\* returns true exactly for the codes whose normalized form is in the allow
\* list.
C3_AllowDecides ==
    (Len(chk.deniedList) = 0 /\ Len(chk.allowedList) > 0) =>
        \A c \in chk.rets :
            c.ret = ((IF c.item \in {"", "0"} THEN "UNK" ELSE c.item)
                        \in Range(chk.allowedList))

\* C3 happens: under an allow list alone one code was accepted and another
\* rejected.
C3_Witness ==
    /\ Len(chk.deniedList) = 0
    /\ \E c \in chk.rets : c.item \in Range(chk.allowedList) /\ c.ret = TRUE
    /\ \E c \in chk.rets : c.item = "CN" /\ c.ret = FALSE

\* C4: under one policy the codes "", "0" and "UNK" get the same result; the
\* empty code is accepted when only the allow list is set and holds "UNK",
\* and rejected when the deny list holds "UNK".
C4_UnknownCodesAgree ==
    /\ \A c, d \in chk.rets :
         (c.item \in {"", "0", "UNK"} /\ d.item \in {"", "0", "UNK"}) => c.ret = d.ret
    /\ \A c \in chk.rets :
         c.item = "" =>
            /\ (chk.deniedList = <<>> /\ "UNK" \in Range(chk.allowedList)) => c.ret = TRUE
            /\ "UNK" \in Range(chk.deniedList) => c.ret = FALSE

\* C4 happens: all three codes were decided under an allow list with "UNK",
\* and the empty code was accepted.
C4_Witness ==
    /\ chk.deniedList = <<>>
    /\ "UNK" \in Range(chk.allowedList)
    /\ {c.item : c \in chk.rets} = CheckItems
    /\ \E c \in chk.rets : c.item = "" /\ c.ret = TRUE

---------------------------------------------------------------------------
(* Properties of UnmarshalCaddyfile, under SpecUnmarshal *)

\* the place of the last keyword before place i of toks, 0 without one
C10_LastKeyword(toks, i) ==
    LET K == {k \in 1..(i - 1) : toks[k] \in Keywords}
    IN  IF K = {} THEN 0 ELSE CHOOSE k \in K : \A j \in K : j <= k

\* the parameter that place i of toks (no keyword) is a value of, "" when
\* none is pending there
C10_Pending(toks, i) ==
    LET k == C10_LastKeyword(toks, i)
    IN  IF k = 0 THEN ""
        ELSE IF toks[k] \in {"allow_countries", "deny_countries"} THEN toks[k]
        ELSE IF i = k + 1 THEN toks[k]
        ELSE ""

\* the values of parameter kw among the first n tokens, in order
RECURSIVE C10_Values(_, _, _)
C10_Values(toks, kw, n) ==
    IF n = 0 THEN <<>>
    ELSE IF toks[n] \notin Keywords /\ C10_Pending(toks, n) = kw
         THEN Append(C10_Values(toks, kw, n - 1), toks[n])
         ELSE C10_Values(toks, kw, n - 1)

\* the last value of parameter kw, "" without one
C10_Last(toks, kw) ==
    LET v == C10_Values(toks, kw, Len(toks))
    IN  IF v = <<>> THEN "" ELSE v[Len(v)]

\* C10: UnmarshalCaddyfile returns an error exactly when some token that is
\* no keyword is read while no parameter is pending; otherwise DbPath and
\* LogPath hold the value that followed their keyword and the two lists hold,
\* in order, the tokens that followed their keywords.
C10_Unmarshal ==
    parsed.done =>
        LET toks == parsed.tokens IN
        /\ parsed.err =
             (\E i \in 1..Len(toks) :
                 toks[i] \notin Keywords /\ C10_Pending(toks, i) = "")
        /\ ~parsed.err =>
             /\ m.DbPath = C10_Last(toks, "db_path")
             /\ m.LogPath = C10_Last(toks, "log_path")
             /\ m.AllowCountries = C10_Values(toks, "allow_countries", Len(toks))
             /\ m.DenyCountries = C10_Values(toks, "deny_countries", Len(toks))

\* C10 happens: a block with a path and a list was read without an error.
C10_Witness ==
    /\ parsed.done
    /\ ~parsed.err
    /\ m.DbPath = "x.bin"
    /\ m.AllowCountries = <<"US">>

===========================================================================
